---- MODULE Spec2Model ----
(***************************************************************************)
(* Model of the FileInput widget (a React component bound to a Formik      *)
(* form) and of the form's initial values.                                 *)
(*                                                                         *)
(* The widget's state is its three useState cells (dragging, fileInfo,     *)
(* uploadProgress), the intervals started by simulateUpload (each with the *)
(* `progress` counter its callback closes over), and the Formik values it  *)
(* writes through setFieldValue.  The native <input type="file"> keeps its *)
(* own FileList, read by the change handler as event.target.files.         *)
(***************************************************************************)
EXTENDS Integers, Sequences, FiniteSets, TLC

\* ------------------------------------------------------------------ bounds
\* Number of non-empty selections (hence of intervals ever started).
MaxSelections == 3
\* Largest number of files in one drop payload.
MaxDropFiles == 2

\* --------------------------------------------------------- program values
\* JavaScript values, tagged so that values of different types compare.
Null == [kind |-> "null"]
Undefined == [kind |-> "undefined"]
Str(s) == [kind |-> "string", v |-> s]
Bool(b) == [kind |-> "boolean", v |-> b]
File(n, sz) == [kind |-> "file", name |-> n, size |-> sz]
FileList(items) == [kind |-> "filelist", items |-> items]

\* File handles the browser can hand over (name, size in bytes).
Files ==
  { File("a.csv", 1535), File("b.csv", 1536) }

RECURSIVE SeqsUpTo(_, _)
SeqsUpTo(S, n) ==
  IF n = 0 THEN { <<>> }
  ELSE LET shorter == SeqsUpTo(S, n - 1)
       IN shorter \cup { Append(q, x) : q \in { r \in shorter : Len(r) = n - 1 }, x \in S }

\* FileLists of the native control: it has no `multiple` attribute.
InputFileLists == { FileList(q) : q \in SeqsUpTo(Files, 1) }
\* FileLists of a drop payload (event.dataTransfer.files).
DropFileLists == { FileList(q) : q \in SeqsUpTo(Files, MaxDropFiles) }

\* The keys of the form values.
FieldNames ==
  { "importName", "manifestFile", "splitSchedule", "client",
    "testingCenter1", "testingCenter2", "testingCenter3", "testingCenter4",
    "toleranceWindow" }

initialValues ==
  [ importName |-> Str(""),
    manifestFile |-> Null,
    splitSchedule |-> Str(""),
    client |-> Str(""),
    testingCenter1 |-> Str(""),
    testingCenter2 |-> Str(""),
    testingCenter3 |-> Str(""),
    testingCenter4 |-> Str(""),
    toleranceWindow |-> Bool(FALSE) ]

\* ------------------------------------------------------- the form schema
\* No error for a field.
NoError == ""
NoErrors == [k \in FieldNames |-> NoError]
\* Message of yup's type test (a default message, not set by the schema).
TypeError == "typeError"

\* The major versions of yup the schema may be run by: 0.x and 1.x.
YupMajors == { 0, 1 }

\* A rule of the schema: the type, the message of required(), whether
\* nullable() follows required(), and the values and message of oneOf().
Rule(type, required, nullable, hasOneOf, oneOf, oneOfMessage) ==
  [ type |-> type, required |-> required, nullable |-> nullable,
    hasOneOf |-> hasOneOf, oneOf |-> oneOf, oneOfMessage |-> oneOfMessage ]

\* Variant: the list of import names lacks its last entry.
validationSchemaShortImportList ==
  [ importName |->
      Rule("string", "Import name is required", FALSE, TRUE,
           { Str("Import ABC"), Str("Import DEF") }, "Invalid Import Name"),
    manifestFile |->
      Rule("mixed", "A file is required", TRUE, FALSE, {}, NoError),
    splitSchedule |->
      Rule("string", "This field is required", FALSE, TRUE,
           { Str("Yes"), Str("No") }, "Invalid Option"),
    client |->
      Rule("string", "Client selection is required", FALSE, TRUE,
           { Str("Single"), Str("Multiple") }, "Invalid Client Type"),
    toleranceWindow |->
      Rule("boolean", "Tolerance window selection is required", FALSE, FALSE,
           {}, NoError) ]

\* Variant: the tolerance toggle must be switched on.
validationSchemaToleranceMustBeTrue ==
  [ importName |->
      Rule("string", "Import name is required", FALSE, TRUE,
           { Str("Import ABC"), Str("Import DEF"), Str("Import GHI") },
           "Invalid Import Name"),
    manifestFile |->
      Rule("mixed", "A file is required", TRUE, FALSE, {}, NoError),
    splitSchedule |->
      Rule("string", "This field is required", FALSE, TRUE,
           { Str("Yes"), Str("No") }, "Invalid Option"),
    client |->
      Rule("string", "Client selection is required", FALSE, TRUE,
           { Str("Single"), Str("Multiple") }, "Invalid Client Type"),
    toleranceWindow |->
      Rule("boolean", "Tolerance window selection is required", FALSE, TRUE,
           { Bool(TRUE) }, "Tolerance window selection is required") ]

\* Variant: the first testing centre has a rule of its own.
validationSchemaTestingCenterRequired ==
  [ importName |->
      Rule("string", "Import name is required", FALSE, TRUE,
           { Str("Import ABC"), Str("Import DEF"), Str("Import GHI") },
           "Invalid Import Name"),
    manifestFile |->
      Rule("mixed", "A file is required", TRUE, FALSE, {}, NoError),
    splitSchedule |->
      Rule("string", "This field is required", FALSE, TRUE,
           { Str("Yes"), Str("No") }, "Invalid Option"),
    client |->
      Rule("string", "Client selection is required", FALSE, TRUE,
           { Str("Single"), Str("Multiple") }, "Invalid Client Type"),
    testingCenter1 |->
      Rule("string", "Testing center is required", FALSE, FALSE, {}, NoError),
    toleranceWindow |->
      Rule("boolean", "Tolerance window selection is required", FALSE, FALSE,
           {}, NoError) ]

validationSchema ==
  [ importName |->
      Rule("string", "Import name is required", FALSE, TRUE,
           { Str("Import ABC"), Str("Import DEF"), Str("Import GHI") },
           "Invalid Import Name"),
    manifestFile |->
      Rule("mixed", "A file is required", TRUE, FALSE, {}, NoError),
    splitSchedule |->
      Rule("string", "This field is required", FALSE, TRUE,
           { Str("Yes"), Str("No") }, "Invalid Option"),
    client |->
      Rule("string", "Client selection is required", FALSE, TRUE,
           { Str("Single"), Str("Multiple") }, "Invalid Client Type"),
    toleranceWindow |->
      Rule("boolean", "Tolerance window selection is required", FALSE, FALSE,
           {}, NoError) ]

\* The form container hands empty strings to the schema as undefined.
prepareDataForValidation(vals) ==
  [k \in DOMAIN vals |-> IF vals[k] = Str("") THEN Undefined ELSE vals[k]]

\* yup's type test of a value that is neither null nor undefined.
isType(type, v) ==
  \/ type = "mixed"
  \/ type = "string" /\ v.kind = "string"
  \/ type = "boolean" /\ v.kind = "boolean"

\* The first error of one rule on a prepared value (never an empty string).
\* undefined fails required().  null: yup 0.x has required() reject it even
\* when nullable() is set, and fails the type test when it is not; yup 1.x
\* lets the later of required() and nullable() decide.
validateField(rule, v, major) ==
  IF v = Undefined THEN rule.required
  ELSE IF v = Null
    THEN IF rule.nullable
         THEN (IF major >= 1 THEN NoError ELSE rule.required)
         ELSE (IF major >= 1 THEN rule.required ELSE TypeError)
  ELSE IF ~isType(rule.type, v) THEN TypeError
  ELSE IF rule.hasOneOf /\ v \notin rule.oneOf THEN rule.oneOfMessage
  ELSE NoError

\* The errors the form container derives from the schema: one message for
\* each field that has a failing rule.
validateYupSchema(vals, major) ==
  LET data == prepareDataForValidation(vals)
  IN [k \in FieldNames |->
        IF k \in DOMAIN validationSchema
        THEN validateField(validationSchema[k], data[k], major)
        ELSE NoError]

\* The field name the FileInput is mounted under (props.name).
WidgetNames == { "manifestFile" }

VARIABLES
  name,            \* props.name, fixed for the life of the component
  dragging,        \* useState(false)
  fileInfo,        \* useState(null): Null or [name, size]
  uploadProgress,  \* useState(0)
  timers,          \* intervals started so far, oldest first
  values,          \* Formik values
  inputFiles,      \* FileList held by the native control
  lastEvent,       \* history: the handler that ran last
  lastTick,        \* history: index of the interval that fired last (0: none)
  lastDragOver,    \* history: the last drag-related event was a drag-over
  lastSelected,    \* history: file of the last non-empty selection
  lastPayload,     \* history: number of files the last event carried
  selections,      \* history: number of non-empty selections so far
  errors,          \* Formik errors: field name -> message (NoError: none)
  validatedBy      \* history: yup major version of the last validation (-1: none)

vars ==
  << name, dragging, fileInfo, uploadProgress, timers, values, inputFiles,
     lastEvent, lastTick, lastDragOver, lastSelected, lastPayload, selections,
     errors, validatedBy >>

\* The part of the state the handlers read and write.
Widget ==
  [ dragging |-> dragging, fileInfo |-> fileInfo,
    uploadProgress |-> uploadProgress, timers |-> timers, values |-> values ]

\* ------------------------------------------------------------ the handlers
\* Formik's setter: writes one entry of the values.
setFieldValue(vals, field, value) == [vals EXCEPT ![field] = value]

\* Variant: a new upload clears the intervals still running.
simulateUploadCancelsPrevious(st) ==
  [st EXCEPT !.timers =
     Append([i \in 1..Len(@) |-> [@[i] EXCEPT !.active = FALSE]],
            [progress |-> 0, active |-> TRUE, fired |-> 0])]

\* simulateUpload: let progress = 0; setInterval(callback, 20).
\* `fired` counts the callback's runs.
simulateUpload(st) ==
  [st EXCEPT !.timers = Append(@, [progress |-> 0, active |-> TRUE, fired |-> 0])]

\* Variant: progress += 15.
intervalCallbackStep15(st, i) ==
  LET progress == st.timers[i].progress + 15
  IN [st EXCEPT
        !.uploadProgress = progress,
        !.timers[i] = [progress |-> progress,
                       active |-> ~(progress >= 100),
                       fired |-> @.fired + 1]]

\* Variant: if (progress > 100) clearInterval(interval).
intervalCallbackStopsLate(st, i) ==
  LET progress == st.timers[i].progress + 10
  IN [st EXCEPT
        !.uploadProgress = progress,
        !.timers[i] = [progress |-> progress,
                       active |-> ~(progress > 100),
                       fired |-> @.fired + 1]]

\* Variant: setUploadProgress(progress) before progress += 10.
intervalCallbackShowsBeforeStep(st, i) ==
  LET progress == st.timers[i].progress + 10
  IN [st EXCEPT
        !.uploadProgress = st.timers[i].progress,
        !.timers[i] = [progress |-> progress,
                       active |-> ~(progress >= 100),
                       fired |-> @.fired + 1]]

\* The interval callback of timer i.
intervalCallback(st, i) ==
  LET progress == st.timers[i].progress + 10
  IN [st EXCEPT
        !.uploadProgress = progress,
        !.timers[i] = [progress |-> progress,
                       active |-> ~(progress >= 100),
                       fired |-> @.fired + 1]]

\* files ? files[0] : null
firstFile(files) ==
  IF files = Null THEN Null
  ELSE IF Len(files.items) > 0 THEN files.items[1] ELSE Undefined

\* JavaScript truthiness of a file handle, null or undefined.
truthy(v) == v # Null /\ v # Undefined

\* Variant: writes the chosen file under a second field as well.
handleChangeWritesTwoFields(st, files) ==
  LET file == firstFile(files)
      st1 == [st EXCEPT !.values =
                setFieldValue(setFieldValue(@, name, file), "importName", file)]
  IN IF truthy(file)
     THEN simulateUpload(
            [st1 EXCEPT !.fileInfo = [name |-> file.name, size |-> file.size],
                        !.uploadProgress = 0])
     ELSE st1

handleChange(st, files) ==
  LET file == firstFile(files)
      st1 == [st EXCEPT !.values = setFieldValue(@, name, file)]
  IN IF truthy(file)
     THEN simulateUpload(
            [st1 EXCEPT !.fileInfo = [name |-> file.name, size |-> file.size],
                        !.uploadProgress = 0])
     ELSE st1

handleClick(st) == st

\* Variant: without the files.length > 0 test.
handleDropNoLengthCheck(st, files) ==
  LET st1 == [st EXCEPT !.dragging = FALSE]
  IN IF files # Null
     THEN LET file == firstFile(files)
              st2 == IF truthy(file)
                     THEN [st1 EXCEPT
                             !.fileInfo = [name |-> file.name, size |-> file.size],
                             !.values = setFieldValue(@, name, file)]
                     ELSE st1
          IN simulateUpload([st2 EXCEPT !.uploadProgress = 0])
     ELSE st1

\* Variant: takes the last file of the payload instead of files[0].
handleDropLastFile(st, files) ==
  LET st1 == [st EXCEPT !.dragging = FALSE]
  IN IF files # Null /\ Len(files.items) > 0
     THEN LET file == files.items[Len(files.items)]
              st2 == IF truthy(file)
                     THEN [st1 EXCEPT
                             !.fileInfo = [name |-> file.name, size |-> file.size],
                             !.values = setFieldValue(@, name, file)]
                     ELSE st1
          IN simulateUpload([st2 EXCEPT !.uploadProgress = 0])
     ELSE st1

handleDrop(st, files) ==
  LET st1 == [st EXCEPT !.dragging = FALSE]
  IN IF files # Null /\ Len(files.items) > 0
     THEN LET file == files.items[1]
              st2 == IF truthy(file)
                     THEN [st1 EXCEPT
                             !.fileInfo = [name |-> file.name, size |-> file.size],
                             !.values = setFieldValue(@, name, file)]
                     ELSE st1
          IN simulateUpload([st2 EXCEPT !.uploadProgress = 0])
     ELSE st1

\* Variant: setDragging(!dragging).
handleDragOverToggles(st) == [st EXCEPT !.dragging = ~@]

handleDragOver(st) ==
  IF ~st.dragging THEN [st EXCEPT !.dragging = TRUE] ELSE st

\* Variant: leaving the drop area also resets the progress.
handleDragLeaveResetsProgress(st) ==
  [st EXCEPT !.dragging = FALSE, !.uploadProgress = 0]

handleDragLeave(st) == [st EXCEPT !.dragging = FALSE]

\* Variant: Math.floor(n / d).
MathFloor(n, d) == n \div d

\* Math.round(n / d) for n >= 0, d > 0: halves round up.
MathRound(n, d) == (2 * n + d) \div (2 * d)

\* What the component renders from its state.
render(st) ==
  [ highlighted |-> st.dragging,
    showsFile |-> st.fileInfo # Null,
    fileName |-> IF st.fileInfo # Null THEN st.fileInfo.name ELSE "",
    sizeKB |-> IF st.fileInfo # Null THEN MathRound(st.fileInfo.size, 1024) ELSE 0,
    barWidth |-> st.uploadProgress ]

\* ---------------------------------------------------------------- actions
Init ==
  /\ name \in WidgetNames
  /\ dragging = FALSE
  /\ fileInfo = Null
  /\ uploadProgress = 0
  /\ timers = << >>
  /\ values = initialValues
  /\ inputFiles = FileList(<< >>)
  /\ lastEvent = "mount"
  /\ lastTick = 0
  /\ lastDragOver = FALSE
  /\ lastSelected = Null
  /\ lastPayload = 0
  /\ selections = 0
  /\ errors = NoErrors
  /\ validatedBy = -1

\* Install the state a handler returns.
Becomes(st) ==
  /\ dragging' = st.dragging
  /\ fileInfo' = st.fileInfo
  /\ uploadProgress' = st.uploadProgress
  /\ timers' = st.timers
  /\ values' = st.values

\* The native control reports a changed selection.
Change ==
  \E files \in InputFileLists :
    /\ files # inputFiles
    /\ Len(handleChange(Widget, files).timers) <= MaxSelections
    /\ inputFiles' = files
    /\ Becomes(handleChange(Widget, files))
    /\ lastEvent' = IF Len(files.items) > 0 THEN "change" ELSE "changeEmpty"
    /\ lastSelected' = IF Len(files.items) > 0 THEN files.items[1] ELSE lastSelected
    /\ selections' = IF Len(files.items) > 0 THEN selections + 1 ELSE selections
    /\ lastPayload' = Len(files.items)
    /\ lastTick' = 0
    /\ UNCHANGED << name, lastDragOver, errors, validatedBy >>

Click ==
  /\ Becomes(handleClick(Widget))
  /\ lastEvent' = "click"
  /\ lastTick' = 0
  /\ lastPayload' = 0
  /\ UNCHANGED << name, inputFiles, lastDragOver, lastSelected, selections,
                  errors, validatedBy >>

Drop ==
  \E files \in DropFileLists :
    /\ Len(handleDrop(Widget, files).timers) <= MaxSelections
    /\ Becomes(handleDrop(Widget, files))
    /\ lastEvent' = IF Len(files.items) > 0 THEN "drop" ELSE "dropEmpty"
    /\ lastSelected' = IF Len(files.items) > 0 THEN files.items[1] ELSE lastSelected
    /\ selections' = IF Len(files.items) > 0 THEN selections + 1 ELSE selections
    /\ lastPayload' = Len(files.items)
    /\ lastDragOver' = FALSE
    /\ lastTick' = 0
    /\ UNCHANGED << name, inputFiles, errors, validatedBy >>

DragOver ==
  /\ Becomes(handleDragOver(Widget))
  /\ lastEvent' = "dragOver"
  /\ lastDragOver' = TRUE
  /\ lastTick' = 0
  /\ lastPayload' = 0
  /\ UNCHANGED << name, inputFiles, lastSelected, selections, errors, validatedBy >>

DragLeave ==
  /\ Becomes(handleDragLeave(Widget))
  /\ lastEvent' = "dragLeave"
  /\ lastDragOver' = FALSE
  /\ lastTick' = 0
  /\ lastPayload' = 0
  /\ UNCHANGED << name, inputFiles, lastSelected, selections, errors, validatedBy >>

\* Interval i is due.  All intervals have the same delay, so an interval's
\* k-th run comes after the k-th run of every interval started before it.
Due(i) ==
  /\ i \in 1..Len(timers)
  /\ timers[i].active
  /\ i > 1 => (~timers[i - 1].active \/ timers[i - 1].fired > timers[i].fired)

Tick(i) ==
  /\ Due(i)
  /\ Becomes(intervalCallback(Widget, i))
  /\ lastEvent' = "tick"
  /\ lastTick' = i
  /\ lastPayload' = 0
  /\ UNCHANGED << name, inputFiles, lastDragOver, lastSelected, selections,
                  errors, validatedBy >>

Ticks == \E i \in 1..Len(timers) : Tick(i)

Next ==
  \/ Change
  \/ Click
  \/ Drop
  \/ DragOver
  \/ DragLeave
  \/ Ticks

Spec == Init /\ [][Next]_vars

\* The event loop runs every due interval callback.
FairSpec == Spec /\ WF_vars(Ticks)

\* ------------------------------------------------------- form validation
\* Values the other controls of the form can hold.
ImportNameInputs ==
  { Str(""), Str("Import ABC"), Str("Import DEF"), Str("Import GHI"),
    Str("Import XYZ") }
SplitScheduleInputs == { Str(""), Str("Yes"), Str("No"), Str("Maybe") }
ClientInputs == { Str(""), Str("Single"), Str("Multiple"), Str("Both") }
TestingCenterInputs == { Str(""), Str("TC-7") }
ToleranceInputs == { Bool(TRUE), Bool(FALSE), Undefined }
ManifestInputs == { Null, Undefined } \cup Files

TestingCenters ==
  { "testingCenter1", "testingCenter2", "testingCenter3", "testingCenter4" }

FormValueSets ==
  [ importName : ImportNameInputs,
    manifestFile : ManifestInputs,
    splitSchedule : SplitScheduleInputs,
    client : ClientInputs,
    testingCenter1 : TestingCenterInputs,
    testingCenter2 : TestingCenterInputs,
    testingCenter3 : TestingCenterInputs,
    testingCenter4 : TestingCenterInputs,
    toleranceWindow : ToleranceInputs ]

\* The form with any values entered, not yet validated.
FormInit ==
  /\ name \in WidgetNames
  /\ dragging = FALSE
  /\ fileInfo = Null
  /\ uploadProgress = 0
  /\ timers = << >>
  /\ values \in FormValueSets
  /\ inputFiles = FileList(<< >>)
  /\ lastEvent = "mount"
  /\ lastTick = 0
  /\ lastDragOver = FALSE
  /\ lastSelected = Null
  /\ lastPayload = 0
  /\ selections = 0
  /\ errors = NoErrors
  /\ validatedBy = -1

\* The form container validates the values against the schema.
Validate ==
  \E major \in YupMajors :
    /\ errors' = validateYupSchema(values, major)
    /\ validatedBy' = major
    /\ UNCHANGED << name, dragging, fileInfo, uploadProgress, timers, values,
                    inputFiles, lastEvent, lastTick, lastDragOver, lastSelected,
                    lastPayload, selections >>

FormNext == Validate

FormSpec == FormInit /\ [][FormNext]_vars

\* ================================================================== claims
Running == { i \in 1..Len(timers) : timers[i].active }
IsSelection(e) == e \in { "change", "drop" }

\* C1: after any selection the displayed progress is 0, reaches 100 exactly
\* when the interval started by that selection has fired 10 times, and never
\* decreases on a tick in between.
C1_ProgressRisesToHundred ==
  [][ /\ IsSelection(lastEvent') => uploadProgress' = 0
      /\ lastEvent' = "tick" => uploadProgress' >= uploadProgress
      /\ (lastEvent' = "tick" /\ Len(timers') > 0)
           => (uploadProgress' = 100 <=> timers'[Len(timers')].fired = 10) ]_vars

\* C2: a change event carrying no file leaves the file descriptor, the
\* progress, the timers and the form value of the file field unchanged.
C2_EmptyChangeIsNoOp ==
  [][ lastEvent' = "changeEmpty"
        => /\ fileInfo' = fileInfo
           /\ uploadProgress' = uploadProgress
           /\ timers' = timers
           /\ values'[name] = values[name] ]_vars

\* C3: a drop of zero files leaves the file descriptor, the progress, the
\* form values and the timers unchanged; it only clears the hovering flag.
C3_EmptyDropFrame ==
  [][ lastEvent' = "dropEmpty"
        => /\ fileInfo' = fileInfo
           /\ uploadProgress' = uploadProgress
           /\ values' = values
           /\ timers' = timers
           /\ dragging' = FALSE ]_vars

C3_Witness ==
  /\ lastEvent = "dropEmpty"
  /\ fileInfo # Null
  /\ uploadProgress \in 10..90
  /\ Running # {}

\* C4: in every state, for every file f, a drop whose first file is f and a
\* change whose first file is f yield the same file descriptor (name and size
\* of f), form value (f), progress (0) and timers (the old ones plus one new).
C4_DropEqualsChange ==
  \A f \in Files : \A dl \in DropFileLists : \A cl \in InputFileLists :
    (Len(dl.items) > 0 /\ Len(cl.items) > 0 /\ dl.items[1] = f /\ cl.items[1] = f)
      => LET d == handleDrop(Widget, dl)
             c == handleChange(Widget, cl)
         IN /\ d.fileInfo = [name |-> f.name, size |-> f.size]
            /\ c.fileInfo = d.fileInfo
            /\ d.values[name] = f
            /\ c.values = d.values
            /\ d.uploadProgress = 0
            /\ c.uploadProgress = 0
            /\ Len(d.timers) = Len(timers) + 1
            /\ SubSeq(d.timers, 1, Len(timers)) = timers
            /\ d.timers[Len(d.timers)].active
            /\ c.timers = d.timers

C4_Witness ==
  /\ lastEvent = "drop"
  /\ lastPayload > 1
  /\ selections > 1
  /\ values[name] = lastSelected
  /\ fileInfo = [name |-> lastSelected.name, size |-> lastSelected.size]
  /\ uploadProgress = 0
  /\ Cardinality(Running) > 1

\* C5: the file descriptor is absent before the first non-empty selection and
\* afterwards is the name and size of the last selected file; the size shown
\* is that size divided by 1024 and rounded to the nearest integer.
C5_DescriptorIsLastSelection ==
  LET shown == render(Widget)
  IN /\ lastSelected = Null => (fileInfo = Null /\ ~shown.showsFile)
     /\ lastSelected # Null
          => /\ fileInfo = [name |-> lastSelected.name, size |-> lastSelected.size]
             /\ shown.showsFile
             /\ shown.fileName = lastSelected.name
             /\ 2 * 1024 * shown.sizeKB - 1024 <= 2 * lastSelected.size
             /\ 2 * lastSelected.size < 2 * 1024 * shown.sizeKB + 1024

C5_Witness ==
  /\ lastEvent = "changeEmpty"
  /\ selections > 1
  /\ fileInfo # Null
  /\ fileInfo.size = 1536
  /\ render(Widget).sizeKB = 2

\* C6: the progress is always an integer in 0..100 and a multiple of 10.
C6_ProgressRange ==
  /\ uploadProgress \in 0..100
  /\ uploadProgress % 10 = 0

C6_Witness ==
  /\ uploadProgress = 100
  /\ Cardinality(Running) > 1

\* C7: every interval fires exactly 10 times, adding 10 to its counter each
\* time, clears itself when the counter reaches 100 and never fires again;
\* eventually no interval is running.
C7_TimersStop ==
  /\ [](\A i \in 1..Len(timers) :
          /\ timers[i].fired <= 10
          /\ timers[i].progress = 10 * timers[i].fired
          /\ timers[i].active <=> timers[i].fired < 10)
  /\ [][ \A i \in 1..Len(timers) :
           /\ i <= Len(timers')
           /\ ~timers[i].active => timers'[i] = timers[i] ]_vars
  /\ <>[](Running = {})

C7_Witness ==
  /\ selections > 1
  /\ Len(timers) = selections
  /\ Running = {}
  /\ \A i \in 1..Len(timers) : timers[i].fired = 10

\* C8: a selection leaves the intervals already running as they are; every
\* tick shows the counter of the interval that fired; the running intervals
\* are those of the selections with fewer than 10 ticks.
C8_TimersOverlap ==
  [][ /\ IsSelection(lastEvent') /\ selections' = selections + 1
        => /\ Len(timers') = Len(timers) + 1
           /\ \A i \in 1..Len(timers) : timers'[i] = timers[i]
      /\ (lastEvent' = "tick" /\ timers' # timers)
        => /\ uploadProgress' = timers'[lastTick'].progress
           /\ timers'[lastTick'].progress = timers[lastTick'].progress + 10
           /\ \A i \in 1..Len(timers) : i # lastTick' => timers'[i] = timers[i]
      /\ Len(timers') = selections'
      /\ Cardinality({ i \in 1..Len(timers') : timers'[i].active })
           = Cardinality({ i \in 1..selections' : timers'[i].fired < 10 }) ]_vars

C8_Witness ==
  /\ lastEvent = "tick"
  /\ lastTick = 1
  /\ Cardinality(Running) > 1
  /\ uploadProgress = timers[1].progress
  /\ uploadProgress > timers[2].progress
  /\ timers[2].fired > 0

\* C9: the hovering flag is true after a drag-over and false after a
\* drag-leave and after a drop; in every state it is true exactly when the
\* last drag-related event was a drag-over (false before any).
C9_DraggingIffLastDragOver ==
  /\ [](dragging <=> lastDragOver)
  /\ [][ /\ lastEvent' = "dragOver" => dragging'
        /\ lastEvent' \in { "dragLeave", "drop", "dropEmpty" } => ~dragging' ]_vars

C9_Witness ==
  /\ dragging
  /\ lastDragOver
  /\ lastEvent = "change"

\* C10: no step changes a form value other than the one under props.name.
C10_OnlyOwnFieldWritten ==
  [][ /\ DOMAIN values' = DOMAIN values
      /\ \A k \in FieldNames \ { name } : values'[k] = values[k] ]_vars

C10_Witness ==
  /\ values[name] \in Files
  /\ lastEvent = "tick"
  /\ \A k \in FieldNames \ { name } : values[k] = initialValues[k]

Validated == validatedBy \in YupMajors

\* C11: validation of the manifest file fails with "A file is required" when
\* the value is null and passes when the value is a file.
C11_NullFailsFilePasses ==
  Validated
    => /\ values.manifestFile = Null => errors.manifestFile = "A file is required"
       /\ values.manifestFile \in Files => errors.manifestFile = NoError

\* C12: importName, splitSchedule and client pass exactly when the value is
\* in the field's allowed set; the empty value gets the field's required
\* error, any other value outside the set the field's invalid-option error.
C12_Expected ==
  [ importName |->
      [ allowed |-> { "Import ABC", "Import DEF", "Import GHI" },
        required |-> "Import name is required",
        invalid |-> "Invalid Import Name" ],
    splitSchedule |->
      [ allowed |-> { "Yes", "No" },
        required |-> "This field is required",
        invalid |-> "Invalid Option" ],
    client |->
      [ allowed |-> { "Single", "Multiple" },
        required |-> "Client selection is required",
        invalid |-> "Invalid Client Type" ] ]

C12_EnumeratedFields ==
  Validated
    => \A f \in DOMAIN C12_Expected :
         LET e == C12_Expected[f]
             v == values[f].v
         IN /\ errors[f] = NoError <=> v \in e.allowed
            /\ v = "" => errors[f] = e.required
            /\ (v # "" /\ v \notin e.allowed) => errors[f] = e.invalid

C12_Witness ==
  /\ Validated
  /\ values.importName = Str("Import XYZ")
  /\ errors.importName = "Invalid Import Name"
  /\ values.splitSchedule = Str("")
  /\ errors.splitSchedule = "This field is required"
  /\ values.client = Str("Multiple")
  /\ errors.client = NoError

\* C13: the tolerance window passes for true and for false and fails, with
\* its required error, only when it is unset.
C13_ToleranceWindow ==
  Validated
    => /\ values.toleranceWindow \in { Bool(TRUE), Bool(FALSE) }
            => errors.toleranceWindow = NoError
       /\ values.toleranceWindow = Undefined
            => errors.toleranceWindow = "Tolerance window selection is required"
       /\ errors.toleranceWindow # NoError => values.toleranceWindow = Undefined

C13_Witness ==
  /\ Validated
  /\ values.toleranceWindow = Bool(FALSE)
  /\ errors.toleranceWindow = NoError
  /\ errors.importName # NoError

\* C14: the errors do not depend on the testing-centre values, and no
\* testing-centre field ever has an error.
C14_TestingCentersIgnored ==
  /\ \A tc \in [TestingCenters -> TestingCenterInputs] : \A major \in YupMajors :
       LET other == [k \in FieldNames |->
                       IF k \in TestingCenters THEN tc[k] ELSE values[k]]
       IN /\ validateYupSchema(other, major) = validateYupSchema(values, major)
          /\ \A k \in TestingCenters : validateYupSchema(other, major)[k] = NoError
  /\ \A k \in TestingCenters : errors[k] = NoError

C14_Witness ==
  /\ Validated
  /\ values.testingCenter1 = Str("")
  /\ values.testingCenter2 = Str("TC-7")
  /\ errors.testingCenter1 = NoError
  /\ errors.testingCenter2 = NoError
  /\ errors.client # NoError

\* C15: whenever a file descriptor is displayed, the form value of the file
\* field is a file with the displayed name and size.
C15_DisplayedFileIsFormValue ==
  fileInfo # Null
    => /\ values[name] \in Files
       /\ values[name].name = fileInfo.name
       /\ values[name].size = fileInfo.size

\* C16: once a file has been selected and the selections have ended, the
\* displayed progress eventually is 100 and stays 100.
C16_ProgressSettlesAtHundred ==
  (selections > 0) ~> [](uploadProgress = 100)

C16_Witness ==
  /\ IsSelection(lastEvent)
  /\ selections >= 3
  /\ Cardinality(Running) >= 3
  /\ \A i \in 1..2 : timers[i].fired > 0
  /\ uploadProgress = 0

\* C17: drag-over, drag-leave and click leave the file descriptor, the
\* progress, the timers and the form values unchanged; click leaves the
\* hovering flag unchanged too.
C17_DragAndClickFrame ==
  [][ /\ lastEvent' \in { "dragOver", "dragLeave", "click" }
        => /\ fileInfo' = fileInfo
           /\ uploadProgress' = uploadProgress
           /\ timers' = timers
           /\ values' = values
      /\ lastEvent' = "click" => dragging' = dragging ]_vars

C17_Witness ==
  /\ lastEvent = "dragLeave"
  /\ fileInfo # Null
  /\ uploadProgress \in 10..90
  /\ Cardinality(Running) > 1
  /\ values[name] \in Files

====
